---- MODULE Spec2Model ----
(***************************************************************************)
(* RamState (src/src/ram-state.js): reactive state cells, their watchers,  *)
(* the microtask scheduler, global effects and derived values.             *)
(*                                                                         *)
(* JavaScript runs one synchronous call to completion, so every public     *)
(* call of the library (useState, set, watch, watchEffect, useEffect,      *)
(* useMemo) and every microtask (flush) is one action.  What such a call   *)
(* does, the callbacks it runs and the calls those make included, is       *)
(* computed by operators over a record of the program state (cells,        *)
(* memos, effects, queue, isFlushing, microtasks) that also carries the    *)
(* trace of the call (log), the exception in flight (exc) and the value    *)
(* being returned (ret).                                                   *)
(***************************************************************************)
EXTENDS Integers, Sequences, FiniteSets, TLC

VARIABLES
    cells,       \* allStates: the cells, in creation order
    memos,       \* the derived values created by useMemo
    effects,     \* the global effects created by useEffect
    queue,       \* createScheduler: the Set of pending jobs, in insertion order
    isFlushing,  \* createScheduler: the flag
    microtasks,  \* number of flush microtasks armed by Promise.resolve().then(flush)
    turn,        \* history: per effect, the cells that triggered it since the last flush
    op,          \* history: the call that was just made
    log          \* history: what that call did, in order

vars == <<cells, memos, effects, queue, isFlushing, microtasks, turn, op, log>>

-----------------------------------------------------------------------------
(* Bounds of the exploration *)

MaxCells == 2          \* cells created by useState
MaxCellWatchers == 2   \* watch / watchEffect registrations (cell-only exploration)
MaxEffects == 1        \* useEffect registrations
MaxMemos == 1          \* useMemo registrations
MaxMicrotasks == 2     \* flush microtasks armed and not yet run
MaxOrderedEffects == 2 \* useEffect registrations (exploration of the job order)
MaxChainedMemos == 2   \* useMemo registrations (exploration of derived values of derived values)

-----------------------------------------------------------------------------
(* JavaScript values *)

Num(n) == [t |-> "num", v |-> n]
NaN == [t |-> "nan"]
Undefined == [t |-> "undef"]
Null == [t |-> "null"]
Arr(r, xs) == [t |-> "arr", ref |-> r, items |-> xs]
Obj(r, ks, xs) == [t |-> "obj", ref |-> r, keys |-> ks, vals |-> xs]
Fn(f) == [t |-> "fn", f |-> f]
Str(x) == [t |-> "str", v |-> x]
Bool(b) == [t |-> "bool", v |-> b]

\* Two arrays [0] created separately: deep-equal, not the same reference.
A1 == Arr(1, <<Num(0)>>)
A2 == Arr(2, <<Num(0)>>)

\* a === b
StrictEquals(a, b) ==
    IF a.t # b.t THEN FALSE
    ELSE CASE a.t = "num" -> a.v = b.v
           [] a.t = "nan" -> FALSE
           [] a.t \in {"undef", "null"} -> TRUE
           [] a.t \in {"arr", "obj"} -> a.ref = b.ref
           [] a.t = "fn" -> a.f = b.f
           [] OTHER -> a.v = b.v

\* typeof a
TypeOf(a) ==
    CASE a.t \in {"num", "nan"} -> "number"
      [] a.t = "undef" -> "undefined"
      [] a.t \in {"null", "arr", "obj"} -> "object"
      [] a.t = "fn" -> "function"
      [] OTHER -> a.t

\* Array.isArray(a)
IsArray(a) == a.t = "arr"

\* the truthiness of a, as && tests it
Truthy(a) ==
    CASE a.t = "num" -> a.v # 0
      [] a.t \in {"nan", "undef", "null"} -> FALSE
      [] a.t = "str" -> a.v # ""
      [] a.t = "bool" -> a.v
      [] OTHER -> TRUE

IndexKey == <<"0", "1", "2", "3">>

\* Object.keys(a)
Keys(a) ==
    IF a.t = "arr" THEN [i \in 1..Len(a.items) |-> IndexKey[i]]
    ELSE IF a.t = "obj" THEN a.keys
    ELSE <<>>

\* a[k]
Get(a, k) ==
    IF a.t = "arr"
    THEN IF \E i \in 1..Len(a.items) : IndexKey[i] = k
         THEN a.items[CHOOSE i \in 1..Len(a.items) : IndexKey[i] = k]
         ELSE Undefined
    ELSE IF a.t = "obj"
    THEN IF \E i \in 1..Len(a.keys) : a.keys[i] = k
         THEN a.vals[CHOOSE i \in 1..Len(a.keys) : a.keys[i] = k]
         ELSE Undefined
    ELSE Undefined

RECURSIVE isEqual(_, _)
isEqual(a, b) ==
    IF StrictEquals(a, b) THEN TRUE
    ELSE IF TypeOf(a) # TypeOf(b) THEN FALSE
    ELSE IF IsArray(a) /\ IsArray(b)
    THEN /\ Len(a.items) = Len(b.items)
         /\ \A i \in 1..Len(a.items) : isEqual(a.items[i], b.items[i])
    ELSE IF Truthy(a) /\ Truthy(b) /\ TypeOf(a) = "object"
    THEN LET keysA == Keys(a)
             keysB == Keys(b)
         IN  IF Len(keysA) # Len(keysB) THEN FALSE
             ELSE \A i \in 1..Len(keysA) : isEqual(Get(a, keysA[i]), Get(b, keysA[i]))
    ELSE FALSE

\* Number(a), for the values a cell holds here
ToNumber(a) ==
    CASE a.t = "num" -> a
      [] a.t = "arr" -> IF Len(a.items) = 0 THEN Num(0)
                        ELSE IF Len(a.items) = 1 /\ a.items[1].t = "num" THEN a.items[1]
                        ELSE NaN
      [] a.t = "null" -> Num(0)
      [] OTHER -> NaN

\* The updater functions a caller passes to set: x => x and x => 1 - x.
ApplyUpdater(f, x) ==
    IF f.f = "identity" THEN x
    ELSE LET n == ToNumber(x) IN IF n.t = "num" THEN Num(1 - n.v) ELSE NaN

-----------------------------------------------------------------------------
(* Watchers, cleanups and the trace *)

\* What a watcher's cleanup field holds: null, or a function returned by the
\* callback.  throws: the function throws when called.  called: how many times
\* this function has been called so far (history).
NoCleanup == [fn |-> FALSE, throws |-> FALSE, called |-> 0]
CleanupFn(throws) == [fn |-> TRUE, throws |-> throws, called |-> 0]

\* The place of a watcher: list is "onSet" or "onChange" (of cell owner), "memo"
\* (sideEffect of memo owner) or "effect" (the cleanup variable of effect owner).
Path(list, owner, idx) == [list |-> list, owner |-> owner, idx |-> idx]
NoPath == Path("none", 0, 0)

Event(ev, w, call, hasChange, value, old, n, m) ==
    [ev |-> ev, w |-> w, call |-> call, hasChange |-> hasChange,
     value |-> value, old |-> old, n |-> n, m |-> m]

Log(s, e) == [s EXCEPT !.log = Append(@, e)]

WatcherAt(s, p) ==
    CASE p.list = "onSet" -> s.cells[p.owner].onSet[p.idx]
      [] p.list = "onChange" -> s.cells[p.owner].onChange[p.idx]
      [] p.list = "memo" -> s.memos[p.owner].sideEffect[p.idx]
      [] OTHER -> s.effects[p.owner]

PutCleanup(s, p, cl) ==
    CASE p.list = "onSet" -> [s EXCEPT !.cells[p.owner].onSet[p.idx].cleanup = cl]
      [] p.list = "onChange" -> [s EXCEPT !.cells[p.owner].onChange[p.idx].cleanup = cl]
      [] p.list = "memo" -> [s EXCEPT !.memos[p.owner].sideEffect[p.idx].cleanup = cl]
      [] OTHER -> [s EXCEPT !.effects[p.owner].cleanup = cl]

\* The payload of a watcher call.
Payload(call, value, hasChange) == [call |-> call, value |-> value, hasChange |-> hasChange]

JobOf(kind, id) == Path(kind, id, 0)

-----------------------------------------------------------------------------
(* createScheduler *)

InQueue(s, job) == \E i \in 1..Len(s.queue) : s.queue[i] = job

\* schedule(job): queue.add(job); if (!isFlushing) Promise.resolve().then(flush)
schedule(s, job) ==
    LET s1 == Log(s, Event("schedule", job, 0, ~InQueue(s, job), Undefined, Undefined,
                           IF s.isFlushing THEN 1 ELSE 0, 0))
        s2 == IF InQueue(s1, job) THEN s1 ELSE [s1 EXCEPT !.queue = Append(@, job)]
    IN  IF ~s2.isFlushing THEN [s2 EXCEPT !.microtasks = @ + 1] ELSE s2

-----------------------------------------------------------------------------
(* safeRun, safeRunCleanUp and the calls they make *)

\* Sequencing: an exception in flight skips the rest of the function.
Then(s, Rest(_)) == IF s.exc THEN s ELSE Rest(s)

RECURSIVE set(_, _, _)
RECURSIVE forEachWatcher(_, _, _, _, _, _, _)
RECURSIVE safeRun(_, _, _, _)
RECURSIVE callback(_, _, _, _)

\* The callbacks a caller registers, by what their body does:
\*   plain       returns nothing
\*   cleanup     returns a cleanup function
\*   throws      throws
\*   badCleanup  returns a cleanup function that throws when called
\*   clamp       ({value}) => { if (value !== 0) cell.set(0); return cleanup }
\*               on the cell it watches
\*   flip        () => { cells[c].set(x => 1 - x) }
\* and the two the library registers itself:
\*   effect      () => scheduleJob(effect)    of effect c
\*   compute     () => scheduleJob(compute)   of memo c
Cb(k, c) == [k |-> k, c |-> c]

\* typeof cb === "function", for what a caller passes as a callback: one of the
\* callbacks above, or a value.
Callable(cb) == IF "k" \in DOMAIN cb THEN TRUE ELSE TypeOf(cb) = "function"

\* History: the subscription of job, the watcher at p, fired.
Triggered(s, job, p) ==
    IF job.list = "effect" /\ p.list \in {"onSet", "onChange"}
    THEN [s EXCEPT !.turn[job.owner] = @ \cup {p.owner}]
    ELSE s

Returns(s, result) == [s EXCEPT !.res = result]
Throws(s) == [s EXCEPT !.exc = TRUE]

\* The body of callback cb, called with payload as the watcher at p.  The result
\* left in res is what safeRun keeps: the returned function, or null.
callback(s, cb, p, payload) ==
    CASE cb.k = "plain" -> Returns(s, NoCleanup)
      [] cb.k = "cleanup" -> Returns(s, CleanupFn(FALSE))
      [] cb.k = "throws" -> Throws(s)
      [] cb.k = "badCleanup" -> Returns(s, CleanupFn(TRUE))
      [] cb.k \in {"clamp", "flip"} ->
            Then(IF cb.k = "flip" THEN set(s, cb.c, Fn("flip"))
                 ELSE IF StrictEquals(payload.value, Num(0)) THEN s
                 ELSE set(s, p.owner, Num(0)),
                 LAMBDA s1 : Returns(s1, IF cb.k = "flip" THEN NoCleanup ELSE CleanupFn(FALSE)))
      [] OTHER -> Returns(schedule(Triggered(s, JobOf(cb.k, cb.c), p), JobOf(cb.k, cb.c)),
                          NoCleanup)

\* A safeRun without its try/catch: the exception goes on to the caller.
Uncaught(s) == s

\* catch (err) { return null }
Caught(s) == IF s.exc THEN [s EXCEPT !.exc = FALSE, !.res = NoCleanup] ELSE s

\* safeRun(cb, payload): try { result = cb(payload); return function or null }
\* catch { return null }
safeRun(s, cb, p, payload) ==
    Caught(callback(Log(s, Event("run", p, payload.call, payload.hasChange,
                                 payload.value, Undefined, 0, 0)),
                    cb, p, payload))

\* Calling the cleanup function cl held by the watcher at p.
CallCleanup(s, p, cl) ==
    [Log(PutCleanup(s, p, [cl EXCEPT !.called = IF @ < 3 THEN @ + 1 ELSE @]),
         Event("cleanup", p, 0, FALSE, Undefined, Undefined, cl.called + 1, 0))
     EXCEPT !.exc = cl.throws]

\* safeRunCleanUp(w.cleanup) for the watcher at p: try { if function, call it }
\* catch { }
safeRunCleanUp(s, p) ==
    IF WatcherAt(s, p).cleanup.fn
    THEN [CallCleanup(s, p, WatcherAt(s, p).cleanup) EXCEPT !.exc = FALSE]
    ELSE s

\* w.cleanup = <result of safeRun>
assignCleanup(s, p) ==
    PutCleanup(IF WatcherAt(s, p).cleanup.fn
               THEN Log(s, Event("overwrite", p, 0, FALSE, Undefined, Undefined,
                                 WatcherAt(s, p).cleanup.called, 0))
               ELSE s,
               p, s.res)

\* What getWatchParams / getWatchEffectParams read as value when called.
CurrentValue(s, list, owner) ==
    IF list = "memo" THEN s.memos[owner].memoizedValue ELSE s.cells[owner].data

\* w => { safeRunCleanUp(w.cleanup); w.cleanup = safeRun(w.cb, params) }
runWatcher(s, p, call, hasChange) ==
    Then(safeRunCleanUp(s, p), LAMBDA s1 :
    Then(safeRun(s1, WatcherAt(s1, p).cb, p,
                 Payload(call, CurrentValue(s1, p.list, p.owner),
                         p.list = "onSet" /\ hasChange)), LAMBDA s2 :
    assignCleanup(s2, p)))

\* list.forEach(w => ...) from index j to n, in the set call number call.
forEachWatcher(s, list, owner, j, n, call, hasChange) ==
    IF j > n \/ s.exc THEN s
    ELSE forEachWatcher(runWatcher(s, Path(list, owner, j), call, hasChange),
                        list, owner, j + 1, n, call, hasChange)

-----------------------------------------------------------------------------
(* The DOM elements bound to a cell *)

\* An element, by what the library reads and writes of it:
\*   text      an <input> that is neither checkbox nor radio, or a <textarea>
\*   checkbox  an <input type="checkbox">
\*   radio     an <input type="radio">; the radios bound to one cell are one group
\*   multi     a <select multiple> with its options and which of them are selected
\*   span      an element that is no form control
\* value is the value property of an input, textContent the text of a span.
Element(kind, value, checked, options, selected, textContent) ==
    [kind |-> kind, value |-> value, checked |-> checked, options |-> options,
     selected |-> selected, textContent |-> textContent]

TextInput(v) == Element("text", v, FALSE, <<>>, <<>>, "")
Checkbox(b) == Element("checkbox", "on", b, <<>>, <<>>, "")
Radio(v, b) == Element("radio", v, b, <<>>, <<>>, "")
MultiSelect(options, selected) == Element("multi", "", FALSE, options, selected, "")
Span(text) == Element("span", "", FALSE, <<>>, <<>>, text)

\* el instanceof HTMLInputElement (or HTMLTextAreaElement, which takes the same
\* paths as a text input), el instanceof HTMLSelectElement, "value" in el
IsInputElement(el) == el.kind \in {"text", "checkbox", "radio"}
IsSelectElement(el) == el.kind = "multi"
HasValueProperty(el) == el.kind # "span"

\* String(v), as the DOM applies it to what is assigned to value or textContent
RECURSIVE ToStr(_)
RECURSIVE Join(_, _)
Join(items, i) ==
    IF i > Len(items) THEN ""
    ELSE (IF i > 1 THEN "," ELSE "")
         \o (IF items[i].t \in {"null", "undef"} THEN "" ELSE ToStr(items[i]))
         \o Join(items, i + 1)

ToStr(v) ==
    CASE v.t = "str" -> v.v
      [] v.t = "num" -> ToString(v.v)
      [] v.t = "nan" -> "NaN"
      [] v.t = "bool" -> IF v.v THEN "true" ELSE "false"
      [] v.t = "null" -> "null"
      [] v.t = "undef" -> "undefined"
      [] v.t = "arr" -> Join(v.items, 1)
      [] v.t = "obj" -> "[object Object]"
      [] OTHER -> "function"

\* [...el.selectedOptions].map(o => o.value)
SelectedValues(el) ==
    LET Selected(o) == \E i \in 1..Len(el.options) : el.options[i] = o /\ el.selected[i]
    IN  SelectSeq(el.options, Selected)

\* el.value, read
ValueOf(el) ==
    IF el.kind = "multi"
    THEN IF SelectedValues(el) = <<>> THEN "" ELSE Head(SelectedValues(el))
    ELSE el.value

\* el.value = x: a select selects the option of that value, if it has one
AssignValue(el, x) ==
    IF el.kind = "multi"
    THEN [el EXCEPT !.selected = [i \in 1..Len(el.options) |-> el.options[i] = ToStr(x)]]
    ELSE [el EXCEPT !.value = ToStr(x)]

\* The array extractDomValue builds is a new one at every call.
ExtractedRef == 40

\* extractDomValue(el)
extractDomValue(el) ==
    IF IsInputElement(el)
    THEN IF el.kind = "checkbox" THEN Bool(el.checked) ELSE Str(el.value)
    ELSE IF IsSelectElement(el)
    THEN Arr(ExtractedRef, [i \in 1..Len(SelectedValues(el)) |-> Str(SelectedValues(el)[i])])
    ELSE Null

\* new Set(value.map(String)).has(opt.value)
ShouldSelect(value, o) == \E k \in 1..Len(value.items) : ToStr(value.items[k]) = o

\* value ?? ""
OrEmpty(value) == IF value.t \in {"null", "undef"} THEN Str("") ELSE value

\* A synchronization that never touches the element.
syncDomModelNever(el, value) == el

\* syncDomModel(el, value): the element afterwards
syncDomModel(el, value) ==
    IF IsInputElement(el) /\ el.kind = "checkbox"
    THEN [el EXCEPT !.checked = Truthy(value)]
    ELSE IF IsSelectElement(el) /\ IsArray(value)
    THEN [el EXCEPT !.selected = [i \in 1..Len(el.options) |-> ShouldSelect(value, el.options[i])]]
    ELSE IF HasValueProperty(el)
    THEN IF StrictEquals(Str(ValueOf(el)), OrEmpty(value)) THEN el
         ELSE AssignValue(el, OrEmpty(value))
    ELSE IF StrictEquals(Str(el.textContent), OrEmpty(value)) THEN el
         ELSE [el EXCEPT !.textContent = ToStr(OrEmpty(value))]

\* syncDomModel(el, value): whether it assigns to a property of the element
syncWrites(el, value) ==
    IF IsInputElement(el) /\ el.kind = "checkbox"
    THEN el.checked # Truthy(value)
    ELSE IF IsSelectElement(el) /\ IsArray(value)
    THEN \E i \in 1..Len(el.options) : el.selected[i] # ShouldSelect(value, el.options[i])
    ELSE IF HasValueProperty(el)
    THEN ~StrictEquals(Str(ValueOf(el)), OrEmpty(value))
    ELSE ~StrictEquals(Str(el.textContent), OrEmpty(value))

\* dom.forEach(el => syncDomModel(el, data)) from element j on, noted in the
\* trace with the set call it belongs to (0: the binding in useState)
RECURSIVE forEachElement(_, _, _, _)
forEachElement(s, c, j, call) ==
    IF j > Len(s.cells[c].dom) THEN s
    ELSE forEachElement(
            Log([s EXCEPT !.cells[c].dom[j] = syncDomModel(@, s.cells[c].data)],
                Event("sync", Path("dom", c, j), call,
                      syncWrites(s.cells[c].dom[j], s.cells[c].data),
                      s.cells[c].data, Undefined, 0, 0)),
            c, j + 1, call)

-----------------------------------------------------------------------------
(* useState *)

\* A change detection by identity instead of by structure.
HasChangeByReference(data, value) == ~StrictEquals(data, value)

\* const hasChange = !isEqual(data, value)
HasChange(data, value) == ~isEqual(data, value)

\* if (typeof value === "function") value = value(data)
NextValue(arg, data) == IF TypeOf(arg) = "function" THEN ApplyUpdater(arg, data) ELSE arg

\* data = value, noted in the trace as the start of set call number call
store(s, c, value, hasChange, call) ==
    Log([s EXCEPT !.cells[c].data = value,
                  !.calls = call,
                  !.effects = [e \in DOMAIN @ |-> [@[e] EXCEPT !.afterSet = TRUE]]],
        Event("set", Path("cell", c, 0), call, hasChange, value, s.cells[c].data,
              Len(s.cells[c].onSet), Len(s.cells[c].onChange)))

\* A notification that runs the change-watchers before the set-watchers.
notifyChangeFirst(s, c, hasChange, call) ==
    Then(IF hasChange
         THEN forEachWatcher(s, "onChange", c, 1, Len(s.cells[c].onChange), call, hasChange)
         ELSE s,
         LAMBDA s2 :
    Then(forEachWatcher(s2, "onSet", c, 1, Len(s2.cells[c].onSet), call, hasChange),
         LAMBDA s3 : [s3 EXCEPT !.ret = s3.cells[c].data]))

\* the watcher notification of set, and return data
notify(s, c, hasChange, call) ==
    Then(forEachWatcher(s, "onSet", c, 1, Len(s.cells[c].onSet), call, hasChange),
         LAMBDA s2 :
    Then(IF hasChange
         THEN forEachWatcher(s2, "onChange", c, 1, Len(s2.cells[c].onChange), call, hasChange)
         ELSE s2,
         LAMBDA s3 : [s3 EXCEPT !.ret = s3.cells[c].data]))

\* set(value) of cell c, from "const hasChange" on
setValue(s, c, value) ==
    notify(forEachElement(store(s, c, value, HasChange(s.cells[c].data, value), s.calls + 1),
                          c, 1, s.calls + 1),
           c, HasChange(s.cells[c].data, value), s.calls + 1)

\* value(data) throws: the updater function raises instead of returning.
UpdaterThrows(arg) == TypeOf(arg) = "function" /\ arg.f = "throws"

\* A set that takes an updater that throws as one that returned undefined.
setCatchingUpdater(s, c, arg) ==
    setValue(s, c, IF UpdaterThrows(arg) THEN Undefined ELSE NextValue(arg, s.cells[c].data))

\* set(value) of cell c: value = value(data) is made outside any try, before
\* anything is stored
set(s, c, arg) ==
    IF UpdaterThrows(arg) THEN Throws(s) ELSE setValue(s, c, NextValue(arg, s.cells[c].data))

\* sideEffect.<list>.push({ cb, cleanup: <the result in res> })
push(s, c, list, cb) ==
    CASE list = "onSet" ->
            [s EXCEPT !.cells[c].onSet = Append(@, [cb |-> cb, cleanup |-> s.res])]
      [] list = "onChange" ->
            [s EXCEPT !.cells[c].onChange = Append(@, [cb |-> cb, cleanup |-> s.res])]
      [] OTHER ->
            [s EXCEPT !.memos[c].sideEffect = Append(@, [cb |-> cb, cleanup |-> s.res])]

\* watch(cb) of cell c
watch(s, c, cb) ==
    IF ~Callable(cb) THEN s
    ELSE push(safeRun(s, cb, Path("onSet", c, Len(s.cells[c].onSet) + 1),
                      Payload(0, s.cells[c].data, FALSE)),
              c, "onSet", cb)

\* A watchEffect that runs the callback at registration whatever the flag says.
watchEffectAlwaysOnMount(s, c, cb, executeOnMount) ==
    push(safeRun(s, cb, Path("onChange", c, Len(s.cells[c].onChange) + 1),
                 Payload(0, s.cells[c].data, FALSE)),
         c, "onChange", cb)

\* watchEffect(cb, executeOnMount) of cell c
watchEffect(s, c, cb, executeOnMount) ==
    IF ~Callable(cb) THEN s
    ELSE push(IF executeOnMount
              THEN safeRun(s, cb, Path("onChange", c, Len(s.cells[c].onChange) + 1),
                           Payload(0, s.cells[c].data, FALSE))
              ELSE Returns(s, NoCleanup),
              c, "onChange", cb)

\* No selectorsOrDom, or a selector that matches nothing.
NoElements == <<>>

\* useState(initialValue, selectorsOrDom), where dom is what getDomElements
\* resolves selectorsOrDom to
useState(s, initialValue, dom) ==
    forEachElement([s EXCEPT !.cells = Append(@, [data |-> initialValue, onSet |-> <<>>,
                                                  onChange |-> <<>>, dom |-> dom])],
                   Len(s.cells) + 1, 1, 0)

\* What the user does to element j of dom before the event is dispatched: types
\* the text u, leaves the checkbox ticked or not (u), picks the radio (which
\* unpicks the other radios of the group), leaves the options u selected;
\* nothing for an event that bubbles up to a span.
UserInputs(el) ==
    CASE el.kind = "text" -> {"", "a", "b"}
      [] el.kind = "checkbox" -> BOOLEAN
      [] el.kind = "radio" -> {TRUE}
      [] el.kind = "multi" -> [1..Len(el.options) -> BOOLEAN]
      [] OTHER -> {FALSE}

Acted(dom, j, u) ==
    CASE dom[j].kind = "text" -> [dom EXCEPT ![j].value = u]
      [] dom[j].kind = "checkbox" -> [dom EXCEPT ![j].checked = u]
      [] dom[j].kind = "radio" ->
            [i \in 1..Len(dom) |->
                IF dom[i].kind = "radio" THEN [dom[i] EXCEPT !.checked = (i = j)] ELSE dom[i]]
      [] dom[j].kind = "multi" -> [dom EXCEPT ![j].selected = u]
      [] OTHER -> dom

\* The listener of "input" and of "change" on element j of cell c:
\* () => { const newVal = extractDomValue(el); stateAPI.set(newVal) }
listener(s, c, j) == set(s, c, extractDomValue(s.cells[c].dom[j]))

-----------------------------------------------------------------------------
(* useButton *)

\* The state object of a button: { disabled, loading, display }
ButtonState(disabled, loading, display) ==
    Obj(0, <<"disabled", "loading", "display">>, <<disabled, loading, display>>)

\* { ...state, ...{ key: value } }: a new object, the keys in the order of state
Spread(state, key, value) ==
    Obj(0, state.keys, [i \in 1..Len(state.keys) |->
                           IF state.keys[i] = key THEN value ELSE state.vals[i]])

\* What a caller passes as opt, with the defaults filled in: the initial state
\* and the loading template and icon (the class names are the default ones).
Options(state, html, icon) == [state |-> state, loading |-> [html |-> html, icon |-> icon]]

\* A button of the page with the given inner HTML, enabled, without classes and
\* without inline display; item is what useButton captures of it at bind time.
ButtonElement(innerHTML) ==
    [kind |-> "button", disabled |-> FALSE, classes |-> {}, innerHTML |-> innerHTML,
     display |-> "", item |-> [default |-> "", loading |-> "", icon |-> ""]]

\* elements = getDomElements(...).map(item => ({ el: item, default: { html:
\* item.innerHTML }, loading: { html: options.loading.html || item.innerHTML,
\* icon: options.loading.icon, ... }, ... }))
bindButton(el, options) ==
    [el EXCEPT !.item = [default |-> el.innerHTML,
                         loading |-> IF options.loading.html # "" THEN options.loading.html
                                     ELSE el.innerHTML,
                         icon |-> options.loading.icon]]

\* The classes updateRender toggles, by the field of the state each follows.
ToggledClasses(stateData) ==
    {cl \in {"loading", "disabled", "show", "hidden"} :
        CASE cl = "loading" -> Truthy(Get(stateData, "loading"))
          [] cl = "disabled" -> Truthy(Get(stateData, "disabled"))
          [] cl = "show" -> Truthy(Get(stateData, "display"))
          [] OTHER -> ~Truthy(Get(stateData, "display"))}

\* A render whose native disabled follows the disabled field alone, and that
\* shows the loading template without the icon.
renderDisabledOnly(el, stateData) ==
    [el EXCEPT
        !.display = IF Truthy(Get(stateData, "display")) THEN "" ELSE "none",
        !.disabled = Truthy(Get(stateData, "disabled")),
        !.classes = (@ \ {"loading", "disabled", "show", "hidden"})
                        \cup ToggledClasses(stateData),
        !.innerHTML = IF Truthy(Get(stateData, "loading"))
                      THEN el.item.loading
                      ELSE el.item.default]

\* updateRender(stateData), for one element
render(el, stateData) ==
    [el EXCEPT
        !.display = IF Truthy(Get(stateData, "display")) THEN "" ELSE "none",
        !.disabled = Truthy(Get(stateData, "disabled")) \/ Truthy(Get(stateData, "loading")),
        !.classes = (@ \ {"loading", "disabled", "show", "hidden"})
                        \cup ToggledClasses(stateData),
        !.innerHTML = IF Truthy(Get(stateData, "loading"))
                      THEN el.item.loading \o el.item.icon
                      ELSE el.item.default]

\* updateRender(stateData): elements.forEach(...)
updateRender(s, c) ==
    [s EXCEPT !.cells[c].dom = [j \in 1..Len(@) |-> render(@[j], s.cells[c].data)]]

\* A set of the button that tells every watcher that the state changed.
buttonSetAlwaysChanged(s, c, value) ==
    notify(updateRender(store(s, c, value, TRUE, s.calls + 1), c), c, TRUE, s.calls + 1)

\* set(value) of button c: the button is the cell c of allStates, its state the
\* cell's data
buttonSet(s, c, value) ==
    notify(updateRender(store(s, c, value, HasChange(s.cells[c].data, value), s.calls + 1), c),
           c, HasChange(s.cells[c].data, value), s.calls + 1)

\* disabled(isDisabled)
disabled(s, c, isDisabled) ==
    buttonSet(s, c, Spread(s.cells[c].data, "disabled", isDisabled))

\* A loading that leaves the disabled field alone.
loadingOnly(s, c, isLoading) ==
    buttonSet(s, c, Spread(s.cells[c].data, "loading", isLoading))

\* loading(isLoading)
loading(s, c, isLoading) ==
    buttonSet(s, c, Spread(Spread(s.cells[c].data, "loading", isLoading),
                           "disabled", isLoading))

\* show(isShowing)
show(s, c, isShowing) ==
    buttonSet(s, c, Spread(s.cells[c].data, "display", isShowing))

\* hide(isHiding)
hide(s, c, isHiding) ==
    buttonSet(s, c, Spread(s.cells[c].data, "display", Bool(~Truthy(isHiding))))

\* useButton(selectorsOrDOM, opt), where dom is what getDomElements resolves
\* selectorsOrDOM to: no render is made here
useButton(s, dom, options) ==
    [s EXCEPT !.cells = Append(@, [data |-> options.state, onSet |-> <<>>, onChange |-> <<>>,
                                   dom |-> [j \in 1..Len(dom) |-> bindButton(dom[j], options)]])]

-----------------------------------------------------------------------------
(* useMemo *)

\* A dependency: cell i or memo i.
Dep(k, i) == [k |-> k, i |-> i]

\* The value a factory or a callback reads from a dependency.
DepValue(s, dep) ==
    IF dep.k = "cell" THEN s.cells[dep.i].data ELSE s.memos[dep.i].memoizedValue

\* What a caller passes to useMemo as factory, over its dependencies d1, d2, ...:
\*   tuple      () => [d1.value, d2.value, ...]
\*   strict     the same, but throws when one of the values is NaN
\*   undefined  no function at all: factory() is a TypeError
NotAFunction == "undefined"

factoryThrows(s, m) ==
    \/ s.memos[m].factory = NotAFunction
    \/ /\ s.memos[m].factory = "strict"
       /\ \E j \in 1..Len(s.memos[m].deps) : DepValue(s, s.memos[m].deps[j]).t = "nan"

factoryResult(s, m) ==
    Arr(0, [j \in 1..Len(s.memos[m].deps) |-> DepValue(s, s.memos[m].deps[j])])

\* memoizedValue = factory()
recompute(s, m) ==
    IF factoryThrows(s, m) THEN Throws(s)
    ELSE Log([s EXCEPT !.memos[m].memoizedValue = factoryResult(s, m)],
             Event("compute", Path("memo", m, 0), 0, FALSE, factoryResult(s, m),
                   s.memos[m].memoizedValue, 0, 0))

\* compute() of memo m
compute(s, m) ==
    Then(recompute(s, m), LAMBDA s1 :
    Then(forEachWatcher(s1, "memo", m, 1, Len(s1.memos[m].sideEffect), 0, FALSE),
         LAMBDA s2 : [s2 EXCEPT !.ret = s2.memos[m].memoizedValue]))

\* watch(cb) of memo m
memoWatch(s, m, cb) ==
    IF ~Callable(cb) THEN s
    ELSE push(safeRun(s, cb, Path("memo", m, Len(s.memos[m].sideEffect) + 1),
                      Payload(0, s.memos[m].memoizedValue, FALSE)),
              m, "memo", cb)

\* deps.forEach((dep) => dep?.watchEffect(() => scheduleJob(compute))), from index j.
\* The object useMemo returns has value and watch and no watchEffect: of a
\* derived value as dep, dep?.watchEffect is undefined and the call a TypeError.
RECURSIVE subscribeCompute(_, _, _, _)
subscribeCompute(s, m, deps, j) ==
    IF j > Len(deps) \/ s.exc THEN s
    ELSE IF deps[j].k = "memo" THEN Throws(s)
    ELSE subscribeCompute(watchEffect(s, deps[j].i, Cb("compute", m), FALSE), m, deps, j + 1)

\* A cell, as the object a caller holds and may pass as an argument.
CellObject(c) == [t |-> "cell", i |-> c]

\* useMemo(factory, deps), deps being an array of dependencies or some other
\* object: of an object without forEach, deps.forEach(...) is a TypeError,
\* thrown before anything is subscribed or computed.
\* returned: the call got as far as its return statement, so the caller holds
\* the derived value's object.
useMemo(s, factory, deps) ==
    IF ~IsArray(deps) THEN Throws(s)
    ELSE
    Then(subscribeCompute(
             [s EXCEPT !.memos = Append(@, [factory |-> factory, deps |-> deps.items,
                                            memoizedValue |-> Undefined,
                                            sideEffect |-> <<>>,
                                            returned |-> FALSE])],
             Len(s.memos) + 1, deps.items, 1),
         LAMBDA s1 :
    Then(compute(s1, Len(s1.memos)),
         LAMBDA s2 : [s2 EXCEPT !.memos[Len(s2.memos)].returned = TRUE]))

-----------------------------------------------------------------------------
(* useEffect *)

\* effect() of effect e: safeRunCleanUp(cleanup); cleanup = safeRun(cb)
effect(s, e) ==
    Then(safeRunCleanUp(s, Path("effect", e, 0)), LAMBDA s1 :
    Then(safeRun(s1, s1.effects[e].cb, Path("effect", e, 0), Payload(0, Undefined, FALSE)),
         LAMBDA s2 : assignCleanup(s2, Path("effect", e, 0))))

\* if ('watchEffect' in dep) dep.watchEffect(() => scheduleJob(effect))
\* else if ('watch' in dep) dep.watch(() => scheduleJob(effect))
subscribeEffect(s, e, dep) ==
    IF dep.k = "cell" THEN watchEffect(s, dep.i, Cb("effect", e), FALSE)
    ELSE memoWatch(s, dep.i, Cb("effect", e))

RECURSIVE subscribeEffects(_, _, _, _)
subscribeEffects(s, e, deps, j) ==
    IF j > Len(deps) \/ s.exc THEN s
    ELSE subscribeEffects(subscribeEffect(s, e, deps[j]), e, deps, j + 1)

\* A useEffect that treats an empty deps array like an absent one.
SubscriptionsEmptyAsAll(s, deps) ==
    IF deps.t = "null" THEN [i \in 1..Len(s.cells) |-> Dep("cell", i)]
    ELSE IF deps.items = <<>> THEN [i \in 1..Len(s.cells) |-> Dep("cell", i)]
    ELSE deps.items

\* A useEffect that subscribes to every cell of allStates when given a non-empty
\* deps array.
SubscriptionsListAsAll(s, deps) ==
    IF deps.t = "null" THEN [i \in 1..Len(s.cells) |-> Dep("cell", i)]
    ELSE IF deps.items = <<>> THEN <<>>
    ELSE [i \in 1..Len(s.cells) |-> Dep("cell", i)]

\* What useEffect subscribes to: deps null or undefined, every cell of allStates;
\* an array, its elements.
Subscriptions(s, deps) ==
    IF deps.t = "null" THEN [i \in 1..Len(s.cells) |-> Dep("cell", i)]
    ELSE deps.items

\* useEffect(cb, deps).  afterSet and known are history: whether a set was made
\* since the call, and the size of allStates at a call with deps null or absent.
useEffect(s, cb, deps) ==
    IF ~Callable(cb) THEN s
    ELSE effect(subscribeEffects(
                    [s EXCEPT !.effects = Append(@, [cb |-> cb, deps |-> deps,
                                                     cleanup |-> NoCleanup,
                                                     afterSet |-> FALSE,
                                                     known |-> IF deps.t = "null"
                                                               THEN Len(s.cells) ELSE 0]),
                              !.turn = Append(@, {})],
                    Len(s.effects) + 1, Subscriptions(s, deps), 1),
                Len(s.effects) + 1)

-----------------------------------------------------------------------------
(* flush *)

\* A flush that executes a job again when the job has left itself queued.
runJobAgain(s, job) ==
    Then(IF job.list = "effect"
         THEN effect(Log(s, Event("job", job, 0, FALSE, Undefined, Undefined, 0, 0)), job.owner)
         ELSE compute(Log(s, Event("job", job, 0, FALSE, Undefined, Undefined, 0, 0)),
                      job.owner),
         LAMBDA s1 :
            IF job.list = "effect"
            THEN effect(Log(s1, Event("job", job, 0, FALSE, Undefined, Undefined, 0, 0)),
                        job.owner)
            ELSE compute(Log(s1, Event("job", job, 0, FALSE, Undefined, Undefined, 0, 0)),
                         job.owner))

\* job(), for a job of the queue
runJob(s, job) ==
    IF job.list = "effect"
    THEN effect(Log(s, Event("job", job, 0, FALSE, Undefined, Undefined, 0, 0)), job.owner)
    ELSE compute(Log(s, Event("job", job, 0, FALSE, Undefined, Undefined, 0, 0)), job.owner)

\* queue.forEach((job) => job()), from index i: a Set's forEach also visits the
\* entries added while it runs.
RECURSIVE forEachJob(_, _)
forEachJob(s, i) ==
    IF i > Len(s.queue) \/ s.exc THEN s
    ELSE forEachJob(runJob(s, s.queue[i]), i + 1)

\* queue.clear(); isFlushing = false -- not reached when a job threw
endFlush(s) == IF s.exc THEN s ELSE [s EXCEPT !.queue = <<>>, !.isFlushing = FALSE]

\* flush()
flush(s) == endFlush(forEachJob([s EXCEPT !.isFlushing = TRUE], 1))

-----------------------------------------------------------------------------
(* The calls a program makes, one action each *)

\* The values and updater functions the calls are made with.
Values == {Num(0), Num(1), NaN, A1, A2}
Updaters == {Fn("identity"), Fn("flip")}
WatcherCallbacks == {Cb(k, 0) : k \in {"plain", "cleanup", "throws", "badCleanup", "clamp"}}

Numbers == {Num(0), Num(1), NaN}
EffectCallbacks == {Cb("cleanup", 0)} \cup {Cb("flip", c) : c \in 1..Len(cells) \cap {1}}
Factories == {"tuple", "strict"}

\* The dependency lists a caller can pass: the cells (and memos) that exist, in
\* the order of their creation.
CellDeps == {Dep("cell", i) : i \in 1..Len(cells)}
MemoDeps == {Dep("memo", i) : i \in {m \in 1..Len(memos) : memos[m].returned}}
Rank(dep) == IF dep.k = "cell" THEN dep.i ELSE Len(cells) + dep.i
ListOf(S) == CHOOSE q \in [1..Cardinality(S) -> S] :
                \A i, j \in 1..Cardinality(S) : i < j => Rank(q[i]) < Rank(q[j])
EffectDeps == {Null} \cup {Arr(0, ListOf(S)) : S \in SUBSET (CellDeps \cup MemoDeps)}
MemoDepLists == {ListOf(S) : S \in SUBSET CellDeps}

\* The program state at the start of a call, with an empty trace.
Begin ==
    [cells |-> cells, memos |-> memos, effects |-> effects, queue |-> queue,
     isFlushing |-> isFlushing, microtasks |-> microtasks, turn |-> turn,
     log |-> <<>>, exc |-> FALSE, res |-> NoCleanup, ret |-> Undefined, calls |-> 0]

\* The state a call leaves, and in op the call that was made: its kind, the cell
\* (memo, effect) it was made on, its argument, what it returned, whether it
\* threw to its caller and, of a flush, the jobs that were pending and the
\* subscriptions that had fired when it started.
Commit(s, kind, target, arg) ==
    /\ s.microtasks <= MaxMicrotasks
    /\ cells' = s.cells
    /\ memos' = s.memos
    /\ effects' = s.effects
    /\ queue' = s.queue
    /\ isFlushing' = s.isFlushing
    /\ microtasks' = s.microtasks
    /\ turn' = IF kind = "flush" THEN [e \in DOMAIN s.turn |-> {}] ELSE s.turn
    /\ log' = s.log
    /\ op' = [kind |-> kind, target |-> target, arg |-> arg, ret |-> s.ret,
              threw |-> s.exc,
              pending |-> IF kind = "flush" THEN queue ELSE <<>>,
              turn |-> IF kind = "flush" THEN turn ELSE <<>>]

Init ==
    /\ cells = <<>>
    /\ memos = <<>>
    /\ effects = <<>>
    /\ queue = <<>>
    /\ isFlushing = FALSE
    /\ microtasks = 0
    /\ turn = <<>>
    /\ op = [kind |-> "RamState", target |-> 0, arg |-> Undefined, ret |-> Undefined,
             threw |-> FALSE, pending |-> <<>>, turn |-> <<>>]
    /\ log = <<>>

NumWatchers == IF Len(cells) = 0 THEN 0
               ELSE LET RECURSIVE Sum(_)
                        Sum(c) == IF c = 0 THEN 0
                                  ELSE Len(cells[c].onSet) + Len(cells[c].onChange) + Sum(c - 1)
                    IN  Sum(Len(cells))

UseState(initialValue) ==
    Commit(useState(Begin, initialValue, NoElements), "useState", Len(cells) + 1, initialValue)

UseStateDom(initialValue, dom) ==
    Commit(useState(Begin, initialValue, dom), "useState", Len(cells) + 1, initialValue)

\* The user acts on element j of cell c and the browser dispatches an event of
\* type "input" or "change" on it.  Assignments made by the library to the
\* properties of an element dispatch no event.
DomEvent(c, j, type, u) ==
    Commit(listener([Begin EXCEPT !.cells[c].dom = Acted(@, j, u)], c, j), type, c,
           [el |-> j, value |-> extractDomValue(Acted(cells[c].dom, j, u)[j])])

Set(c, arg) ==
    Commit(set(Begin, c, arg), "set", c, arg)

Watch(c, cb) ==
    Commit(watch(Begin, c, cb), "watch", c, cb)

WatchEffect(c, cb, executeOnMount) ==
    Commit(watchEffect(Begin, c, cb, executeOnMount), "watchEffect", c,
           [cb |-> cb, executeOnMount |-> executeOnMount])

UseEffect(cb, deps) ==
    Commit(useEffect(Begin, cb, deps), "useEffect", Len(effects) + 1,
           [cb |-> cb, deps |-> deps])

UseMemo(factory, deps) ==
    Commit(useMemo(Begin, factory, deps), "useMemo", Len(memos) + 1,
           [factory |-> factory, deps |-> deps])

MemoWatch(m, cb) ==
    Commit(memoWatch(Begin, m, cb), "memoWatch", m, cb)

UseButton(dom, options) ==
    Commit(useButton(Begin, dom, options), "useButton", Len(cells) + 1, options)

Disabled(c, flag) == Commit(disabled(Begin, c, flag), "disabled", c, flag)

Loading(c, flag) == Commit(loading(Begin, c, flag), "loading", c, flag)

Show(c, flag) == Commit(show(Begin, c, flag), "show", c, flag)

Hide(c, flag) == Commit(hide(Begin, c, flag), "hide", c, flag)

\* btn.loading(true); btn.loading(false), as one step of the caller
LoadingCycle(c) ==
    Commit(Then(loading(Begin, c, Bool(TRUE)), LAMBDA s1 : loading(s1, c, Bool(FALSE))),
           "loadingCycle", c, Undefined)

\* The microtask armed by schedule runs.
Flush ==
    /\ microtasks > 0
    /\ Commit(flush([Begin EXCEPT !.microtasks = @ - 1]), "flush", 0, Undefined)

\* A program that creates a single cell and works on it and its watchers only.
NextCell ==
    \/ \E v \in Values : cells = <<>> /\ UseState(v)
    \/ \E c \in 1..Len(cells), arg \in Values \cup Updaters : Set(c, arg)
    \/ \E c \in 1..Len(cells), cb \in WatcherCallbacks :
          NumWatchers < MaxCellWatchers /\ Watch(c, cb)
    \/ \E c \in 1..Len(cells), cb \in WatcherCallbacks, m \in BOOLEAN :
          NumWatchers < MaxCellWatchers /\ WatchEffect(c, cb, m)

SpecCell == Init /\ [][NextCell]_vars

\* A program that uses cells, derived values and global effects.
Next ==
    \/ \E v \in Numbers : Len(cells) < MaxCells /\ UseState(v)
    \/ \E c \in 1..Len(cells), arg \in Numbers : Set(c, arg)
    \/ \E f \in Factories, deps \in MemoDepLists :
          Len(memos) < MaxMemos /\ UseMemo(f, Arr(0, deps))
    \/ \E cb \in EffectCallbacks, deps \in EffectDeps :
          Len(effects) < MaxEffects /\ UseEffect(cb, deps)
    \/ Flush

Spec == Init /\ [][Next]_vars

\* A program that also passes values that are not functions where the library
\* takes a callback: to watch, watchEffect, memo.watch, useEffect and useMemo;
\* and a single cell where useMemo takes its dependencies.
NotCallbacks == {Null}
UsageCallbacks == {Cb("cleanup", 0)} \cup NotCallbacks
UsageFactories == {"tuple", NotAFunction}
UsageDeps == {Arr(0, deps) : deps \in MemoDepLists} \cup {CellObject(c) : c \in 1..Len(cells)}

NextUsage ==
    \/ cells = <<>> /\ UseState(Num(0))
    \/ \E c \in 1..Len(cells), arg \in {Num(0), Num(1)} : Set(c, arg)
    \/ \E c \in 1..Len(cells), cb \in UsageCallbacks :
          NumWatchers < MaxCellWatchers /\ Watch(c, cb)
    \/ \E c \in 1..Len(cells), cb \in UsageCallbacks, m \in BOOLEAN :
          NumWatchers < MaxCellWatchers /\ WatchEffect(c, cb, m)
    \/ \E f \in UsageFactories, deps \in UsageDeps :
          Len(memos) < MaxMemos /\ UseMemo(f, deps)
    \/ \E m \in 1..Len(memos), cb \in UsageCallbacks :
          memos[m].returned /\ Len(memos[m].sideEffect) < MaxMemos /\ MemoWatch(m, cb)
    \/ \E cb \in UsageCallbacks, deps \in EffectDeps :
          Len(effects) < MaxEffects /\ UseEffect(cb, deps)
    \/ Flush

SpecUsage == Init /\ [][NextUsage]_vars

\* A program that sets one cell from each of these values to each of them, so
\* that set applies isEqual to every pair: null, undefined, numbers, the arrays
\* [], [1], [1] again, [1, 0], [0, 1] and the objects {}, {0: 1}, {x: 1},
\* {x: 1} again, {y: 1}, {x: undefined}, {y: undefined}, {x: 1, y: 0},
\* {y: 0, x: 1}, {x: 1, y: undefined}.
EqualityValues ==
    {Null, Undefined, Num(0), Num(1),
     Arr(11, <<>>), Arr(12, <<Num(1)>>), Arr(13, <<Num(1)>>),
     Arr(14, <<Num(1), Num(0)>>), Arr(15, <<Num(0), Num(1)>>),
     Obj(21, <<>>, <<>>), Obj(22, <<"0">>, <<Num(1)>>),
     Obj(23, <<"x">>, <<Num(1)>>), Obj(24, <<"x">>, <<Num(1)>>),
     Obj(25, <<"y">>, <<Num(1)>>),
     Obj(26, <<"x">>, <<Undefined>>), Obj(27, <<"y">>, <<Undefined>>),
     Obj(28, <<"x", "y">>, <<Num(1), Num(0)>>), Obj(29, <<"y", "x">>, <<Num(0), Num(1)>>),
     Obj(30, <<"x", "y">>, <<Num(1), Undefined>>)}

NextEqual ==
    \/ \E v \in EqualityValues : cells = <<>> /\ UseState(v)
    \/ \E c \in 1..Len(cells), v \in EqualityValues : Set(c, v)

SpecEqual == Init /\ [][NextEqual]_vars

\* A program that binds one button state to the buttons of a page, watches it
\* and calls its methods.
Flags == {Bool(TRUE), Bool(FALSE)}
ButtonBindings == {<<ButtonElement("Save")>>, <<ButtonElement("Save"), ButtonElement("OK")>>}
ButtonOptions ==
    {Options(ButtonState(d, l, Bool(TRUE)), html, "*") :
        d \in Flags, l \in Flags, html \in {"", "Wait"}}
ButtonCallbacks == {Cb("plain", 0), Cb("cleanup", 0), Cb("throws", 0)}

NextButton ==
    \/ \E dom \in ButtonBindings, options \in ButtonOptions :
          cells = <<>> /\ UseButton(dom, options)
    \/ \E c \in 1..Len(cells), flag \in Flags : Disabled(c, flag)
    \/ \E c \in 1..Len(cells), flag \in Flags : Loading(c, flag)
    \/ \E c \in 1..Len(cells), flag \in Flags : Show(c, flag)
    \/ \E c \in 1..Len(cells), flag \in Flags : Hide(c, flag)
    \/ \E c \in 1..Len(cells) : LoadingCycle(c)
    \/ \E c \in 1..Len(cells), cb \in ButtonCallbacks :
          NumWatchers < MaxCellWatchers /\ Watch(c, cb)
    \/ \E c \in 1..Len(cells), cb \in ButtonCallbacks, m \in BOOLEAN :
          NumWatchers < MaxCellWatchers /\ WatchEffect(c, cb, m)

SpecButton == Init /\ [][NextButton]_vars

\* A program that registers several global effects, each on cells it names, and
\* sets the cells in any order.
OrderedDeps == {Arr(0, ListOf(S)) : S \in SUBSET CellDeps \ {{}}}

NextOrder ==
    \/ Len(cells) < MaxCells /\ UseState(Num(0))
    \/ \E c \in 1..Len(cells), arg \in {Num(0), Num(1)} : Set(c, arg)
    \/ \E deps \in OrderedDeps :
          Len(effects) < MaxOrderedEffects /\ UseEffect(Cb("plain", 0), deps)
    \/ Flush

SpecOrder == Init /\ [][NextOrder]_vars

\* A program that binds one cell to elements of a page, sets it, watches it, and
\* whose user acts on the elements.
Bindings ==
    {<<TextInput("")>>,
     <<TextInput(""), Span("")>>,
     <<TextInput("b"), TextInput("")>>,
     <<Checkbox(FALSE), TextInput("")>>,
     <<Checkbox(TRUE), Checkbox(FALSE)>>,
     <<MultiSelect(<<"a", "b">>, <<FALSE, FALSE>>), MultiSelect(<<"a", "b">>, <<FALSE, TRUE>>)>>,
     <<MultiSelect(<<"a", "b">>, <<FALSE, FALSE>>), TextInput(""), Span("")>>,
     <<Radio("a", FALSE), Radio("b", FALSE)>>}
DomValues == {Str(""), Str("a"), Num(1), Bool(TRUE), Null, Arr(31, <<Str("a")>>)}
DomCallbacks == {Cb("plain", 0), Cb("cleanup", 0)}
DomUpdaters == {Fn("throws")}
EventTypes == {"input", "change"}

NextDom ==
    \/ \E v \in DomValues, dom \in Bindings : cells = <<>> /\ UseStateDom(v, dom)
    \/ \E c \in 1..Len(cells), v \in DomValues \cup DomUpdaters : Set(c, v)
    \/ \E c \in 1..Len(cells), cb \in DomCallbacks :
          NumWatchers < MaxCellWatchers /\ Watch(c, cb)
    \/ \E c \in 1..Len(cells), cb \in DomCallbacks, m \in BOOLEAN :
          NumWatchers < MaxCellWatchers /\ WatchEffect(c, cb, m)
    \/ \E c \in 1..Len(cells) : \E j \in 1..Len(cells[c].dom), type \in EventTypes :
          \E u \in UserInputs(cells[c].dom[j]) : DomEvent(c, j, type, u)

SpecDom == Init /\ [][NextDom]_vars

-----------------------------------------------------------------------------
(* Reading the trace of the last call *)

Here == [cells |-> cells, memos |-> memos, effects |-> effects, queue |-> queue]
Steps == 1..Len(log)
SetCalls == {i \in Steps : log[i].ev = "set"}

\* The runs of the watcher at p made by set call number call.
RunsIn(call, p) == {i \in Steps : log[i].ev = "run" /\ log[i].call = call /\ log[i].w = p}

\* The runs of effect e's callback.
EffectRuns(e) == {i \in Steps : log[i].ev = "run" /\ log[i].w = Path("effect", e, 0)}

\* The executions of job by the flush.
JobRuns(job) == {i \in Steps : log[i].ev = "job" /\ log[i].w = job}

\* Step i is a callback or a cleanup that throws.
ThrowsAt(i) ==
    \/ log[i].ev = "run" /\ WatcherAt(Here, log[i].w).cb.k = "throws"
    \/ log[i].ev = "cleanup" /\ WatcherAt(Here, log[i].w).cb.k = "badCleanup"

\* The set call logged at step i ran each set-watcher once, and each
\* change-watcher once or not at all.
RanEveryWatcher(i) ==
    /\ \A j \in 1..log[i].n :
          Cardinality(RunsIn(log[i].call, Path("onSet", log[i].w.owner, j))) = 1
    /\ \A j \in 1..log[i].m :
          Cardinality(RunsIn(log[i].call, Path("onChange", log[i].w.owner, j))) \in {0, 1}

-----------------------------------------------------------------------------
(* The claims *)

\* C1: every call of set invokes every registered set-watcher exactly once, with
\* hasChange = !equal(old, new), and every registered change-watcher exactly once
\* when !equal(old, new) and not at all otherwise; so a set to a deep-equal value
\* gives hasChange = false and runs no change-watcher.
C1_SetNotifiesWatchers ==
    \A i \in SetCalls :
        LET changed == ~isEqual(log[i].old, log[i].value)
            c == log[i].w.owner
        IN  /\ \A j \in 1..log[i].n :
                  /\ Cardinality(RunsIn(log[i].call, Path("onSet", c, j))) = 1
                  /\ \A k \in RunsIn(log[i].call, Path("onSet", c, j)) :
                        log[k].hasChange = changed
            /\ \A j \in 1..log[i].m :
                  Cardinality(RunsIn(log[i].call, Path("onChange", c, j)))
                      = IF changed THEN 1 ELSE 0

\* C1 witness: a set from one array [0] to another array [0] on a cell that has
\* a set-watcher and a change-watcher.
C1_Witness ==
    \E i \in SetCalls :
        /\ log[i].old.t = "arr" /\ log[i].value.t = "arr"
        /\ log[i].old.ref # log[i].value.ref
        /\ log[i].n >= 1 /\ log[i].m >= 1

\* C4: a cleanup returned by a run of a watcher or effect is invoked exactly once,
\* immediately before the next run of the same callback, and at no other time.
C4_CleanupOncePerRun ==
    /\ \A i \in Steps : log[i].ev = "cleanup" =>
          /\ log[i].n = 1
          /\ i < Len(log) /\ log[i + 1].ev = "run" /\ log[i + 1].w = log[i].w
    /\ \A i \in Steps : log[i].ev = "overwrite" => log[i].n = 1

\* C4 witness: a set in which a cleanup function was invoked for the second time.
C4_Witness ==
    /\ op.kind = "set"
    /\ \E i \in Steps : log[i].ev = "cleanup" /\ log[i].n = 2

\* C5: when a watcher callback or a cleanup throws during set, nothing reaches
\* the caller of set, every set-watcher and change-watcher of that set still
\* runs, and the cell holds and set returns the value of the latest set call.
C5_ThrowingWatcherIsolated ==
    (op.kind = "set" /\ \E i \in Steps : ThrowsAt(i)) =>
        /\ ~op.threw
        /\ op.ret = cells[op.target].data
        /\ \A i \in SetCalls :
              /\ RanEveryWatcher(i)
              /\ \A j \in 1..log[i].m :
                    Cardinality(RunsIn(log[i].call, Path("onChange", log[i].w.owner, j)))
                        = IF log[i].hasChange THEN 1 ELSE 0
              /\ (\A k \in SetCalls : k <= i) => cells[op.target].data = log[i].value
        /\ (Cardinality(SetCalls) = 1 => op.ret = NextValue(op.arg, log[1].old))

\* C5 witness: in one set, a callback threw and a watcher registered after it
\* ran all the same.
C5_Witness ==
    /\ op.kind = "set"
    /\ \E i, j \in Steps :
          /\ i < j
          /\ log[i].ev = "run" /\ WatcherAt(Here, log[i].w).cb.k = "throws"
          /\ log[j].ev = "run" /\ log[j].w # log[i].w /\ log[j].call = log[i].call

\* C10: set(x => x) gives hasChange = false whatever the cell holds: the
\* set-watchers are told so and no change-watcher runs.
C10_IdentityUpdateIsNoChange ==
    (op.kind = "set" /\ op.arg = Fn("identity")) =>
        \A i \in Steps :
            (log[i].ev = "run" /\ log[i].call = 1) =>
                log[i].w.list = "onSet" /\ ~log[i].hasChange

\* C10 witness: set(x => x) on a cell that holds NaN told a set-watcher that the
\* value changed.
C10_Witness ==
    /\ op.kind = "set" /\ op.arg = Fn("identity")
    /\ \E i \in Steps : log[i].ev = "set" /\ log[i].old = NaN /\ log[i].n >= 1

\* C2: two set calls that change two different cells tracked by an effect, made
\* before the flush runs, make the flush run the effect's callback exactly once.
C2_TwoSetsOneRerun ==
    op.kind = "flush" =>
        \A e \in 1..Len(effects) :
            Cardinality(op.turn[e]) >= 2 => Cardinality(EffectRuns(e)) = 1

\* C2 witness: a flush that started with the effect triggered by two cells and a
\* recompute of a successfully constructed derived value pending, and that did
\* not run the effect.
C2_Witness ==
    /\ op.kind = "flush"
    /\ Len(effects) = 1 /\ Len(memos) = 1 /\ memos[1].returned
    /\ effects[1].cb = Cb("cleanup", 0)
    /\ Cardinality(op.turn[1]) = 2
    /\ EffectRuns(1) = {}

\* C3: once a flush has completed, a derived value equals what its factory
\* returns for the values its dependencies now hold.
C3_MemoFreshAfterFlush ==
    op.kind = "flush" =>
        \A m \in 1..Len(memos) :
            (memos[m].returned /\ ~factoryThrows(Here, m)) =>
                memos[m].memoizedValue.items = factoryResult(Here, m).items

\* C3 witness: a flush has completed, no flush is armed and nothing is queued,
\* and a derived value differs from what its factory returns now.
C3_Witness ==
    /\ op.kind = "flush" /\ ~op.threw
    /\ queue = <<>> /\ microtasks = 0
    /\ \E m \in 1..Len(memos) :
          /\ memos[m].returned /\ ~factoryThrows(Here, m)
          /\ memos[m].memoizedValue.items # factoryResult(Here, m).items

\* C6: useEffect(cb, []) runs cb once, in the useEffect call, and never again:
\* no later call runs it and it is never queued.
C6_EmptyDepsRunsOnce ==
    \A e \in 1..Len(effects) :
        effects[e].deps = Arr(0, <<>>) =>
            /\ Cardinality(EffectRuns(e))
                   = IF op.kind = "useEffect" /\ op.target = e THEN 1 ELSE 0
            /\ ~InQueue(Here, JobOf("effect", e))

\* C6 witness: a flush that ran a job, after a set, in a program that has an
\* effect with deps = [].
C6_Witness ==
    /\ op.kind = "flush" /\ ~op.threw
    /\ \E i \in Steps : log[i].ev = "job"
    /\ \E e \in 1..Len(effects) : effects[e].deps = Arr(0, <<>>) /\ effects[e].afterSet

\* C7: useEffect runs cb exactly once in the useEffect call, and afterwards at
\* most once per flush and only if a set was made after the registration.
C7_RunsOnlyWhenTriggered ==
    /\ op.kind = "useEffect" => Cardinality(EffectRuns(op.target)) = 1
    /\ op.kind = "flush" =>
          \A e \in 1..Len(effects) :
              /\ Cardinality(EffectRuns(e)) <= 1
              /\ EffectRuns(e) # {} => effects[e].afterSet

\* C7 witness: a flush ran the callback of an effect although no set was ever
\* made (the program has no cell).
C7_Witness ==
    /\ op.kind = "flush" /\ cells = <<>>
    /\ \E e \in 1..Len(effects) : EffectRuns(e) # {} /\ ~effects[e].afterSet

\* C8: a job enqueued by a schedule call made inside a running flush is not
\* executed by that flush.
C8_ReentrantJobDeferred ==
    op.kind = "flush" =>
        \A i, j \in Steps :
            (i < j /\ log[i].ev = "schedule" /\ log[i].hasChange /\ log[j].ev = "job")
                => log[j].w # log[i].w

\* C8 witness: a flush in which nothing threw and no set was made, and which
\* executed a job that a schedule call had enqueued during that flush.
C8_Witness ==
    /\ op.kind = "flush" /\ ~op.threw
    /\ \A i \in Steps : log[i].ev # "set"
    /\ \E i, j \in Steps :
          /\ i < j
          /\ log[i].ev = "schedule" /\ log[i].hasChange
          /\ log[j].ev = "job" /\ log[j].w = log[i].w

\* C9: a flush executes every job that was pending exactly once and leaves the
\* queue empty.
C9_FlushRunsPendingOnce ==
    op.kind = "flush" =>
        /\ \A k \in 1..Len(op.pending) : Cardinality(JobRuns(op.pending[k])) = 1
        /\ queue = <<>>

\* C9 witness: a flush of a program whose only derived value was constructed
\* successfully has ended with a job still in the queue.
C9_Witness ==
    /\ op.kind = "flush"
    /\ Len(memos) = 1 /\ memos[1].returned /\ effects = <<>>
    /\ queue # <<>>

-----------------------------------------------------------------------------
(* Claims about set, watch and watchEffect *)

\* C11: set(arg) computes next = arg(current) when arg is callable and next = arg
\* otherwise, stores next, returns next, and the cell's value right after the
\* call is next.
C11_SetStoresAndReturnsNext ==
    op.kind = "set" =>
        /\ op.ret = NextValue(op.arg, log[1].old)
        /\ cells[op.target].data = NextValue(op.arg, log[1].old)

\* C11 witness: a set whose watcher called set again has returned a value that
\* is not next.
C11_Witness ==
    /\ op.kind = "set"
    /\ Cardinality(SetCalls) = 2
    /\ op.ret # NextValue(op.arg, log[1].old)

\* The runs of the watcher at p in the last call, whichever set call made them.
RunsOf(p) == {i \in Steps : log[i].ev = "run" /\ log[i].w = p}

\* The value the cell of the last call held when the call was made.
ValueAtCall ==
    IF SetCalls = {} THEN cells[op.target].data
    ELSE log[CHOOSE i \in SetCalls : \A j \in SetCalls : i <= j].old

\* C12: watch(cb) invokes cb exactly once, at once, with hasChange = false and
\* the current value; watchEffect(cb, true) invokes cb exactly once, at once,
\* with the current value; watchEffect(cb, false) does not invoke cb, and a set
\* invokes a change-watcher if and only if that set changes the value
\* (!equal(old, new)), so the first invocation is made by the first such set.
C12_RegistrationInvocation ==
    /\ op.kind = "watch" =>
          /\ RunsOf(Path("onSet", op.target, Len(cells[op.target].onSet))) = {1}
          /\ ~log[1].hasChange
          /\ log[1].value = ValueAtCall
    /\ (op.kind = "watchEffect" /\ op.arg.executeOnMount) =>
          /\ RunsOf(Path("onChange", op.target, Len(cells[op.target].onChange))) = {1}
          /\ log[1].value = ValueAtCall
    /\ (op.kind = "watchEffect" /\ ~op.arg.executeOnMount) => log = <<>>
    /\ op.kind = "set" =>
          \A i \in SetCalls :
              \A j \in 1..log[i].m :
                  Cardinality(RunsIn(log[i].call, Path("onChange", log[i].w.owner, j)))
                      = IF isEqual(log[i].old, log[i].value) THEN 0 ELSE 1

\* C12 witness: watch(cb) has invoked a callback that set the cell to another
\* value during the registration.
C12_Witness ==
    /\ op.kind = "watch"
    /\ SetCalls # {}
    /\ cells[op.target].data # ValueAtCall

\* The elements and watchers that set call number call synchronized and ran, in
\* the order in which it did.
OwnSteps(call) ==
    LET Own(e) == e.call = call /\ e.ev \in {"sync", "run"}
        own == SelectSeq(log, Own)
    IN  [j \in 1..Len(own) |-> own[j].w]

\* The places from..to of a list of cell c, in order.
InOrder(list, c, n) == [j \in 1..n |-> Path(list, c, j)]

\* C13: a set call first synchronizes every bound element, in order, then runs
\* every set-watcher in registration order, then, only if the value changed,
\* every change-watcher in registration order.
C13_OrderWithinSet ==
    \A i \in SetCalls :
        OwnSteps(log[i].call) =
            InOrder("dom", log[i].w.owner, Len(cells[log[i].w.owner].dom))
            \o InOrder("onSet", log[i].w.owner, log[i].n)
            \o (IF log[i].hasChange THEN InOrder("onChange", log[i].w.owner, log[i].m)
                ELSE <<>>)

\* C13 witness: a set that changed the value of a cell bound to two elements,
\* with a set-watcher and a change-watcher.
C13_Witness ==
    /\ op.kind = "set" /\ ~op.threw
    /\ log[1].hasChange
    /\ Len(cells[op.target].dom) = 2
    /\ Len(cells[op.target].onSet) = 1
    /\ Len(cells[op.target].onChange) = 1
    /\ Len(OwnSteps(1)) = 4

\* What it is for an element to display the value v: a checkbox is ticked iff v
\* is truthy, the picked radio of the group is the one of value v, a
\* multi-select has the options of the array v selected, any other control has
\* the text of v as value and any other element as text content.
Displays(el, v) ==
    CASE el.kind = "checkbox" -> el.checked = Truthy(v)
      [] el.kind = "radio" -> el.checked => el.value = ToStr(v)
      [] el.kind = "multi" ->
            IF IsArray(v)
            THEN {SelectedValues(el)[i] : i \in 1..Len(SelectedValues(el))}
                    = {ToStr(v.items[k]) : k \in 1..Len(v.items)}
            ELSE ValueOf(el) = ToStr(v)
      [] el.kind = "text" -> el.value = ToStr(v)
      [] OTHER -> el.textContent = ToStr(v)

\* C20: an input or change event on a bound form control whose extracted value
\* is v calls set exactly once, with v; afterwards the cell holds v and every
\* element bound to the cell displays v.
C20_TwoWayBinding ==
    (op.kind \in EventTypes /\ cells[op.target].dom[op.arg.el].kind # "span") =>
        /\ Cardinality(SetCalls) = 1
        /\ log[1].ev = "set"
        /\ log[1].value = op.arg.value
        /\ cells[op.target].data = op.arg.value
        /\ \A j \in 1..Len(cells[op.target].dom) :
              Displays(cells[op.target].dom[j], op.arg.value)

\* C20 witness: the user has typed "a" into the second of two bound text inputs,
\* and the synchronization has written it to the first.
C20_Witness ==
    /\ op.kind = "input"
    /\ op.arg = [el |-> 2, value |-> Str("a")]
    /\ cells[1].data = Str("a")
    /\ cells[1].dom[1] = TextInput("a")
    /\ log[2].ev = "sync" /\ log[2].hasChange
    /\ log[3].ev = "sync" /\ ~log[3].hasChange

\* The watcher of step i calls set on the cell it watches.
Reentrant(i) ==
    /\ log[i].w.list \in {"onSet", "onChange"}
    /\ WatcherAt(Here, log[i].w).cb.k = "clamp"

\* C25: of a watcher whose callback calls set on the cell it watches, every
\* returned cleanup is invoked at most once, and none is overwritten by the
\* result of a later run without having been invoked.
C25_CleanupUnderReentrancy ==
    \A i \in Steps :
        Reentrant(i) =>
            /\ log[i].ev = "cleanup" => log[i].n <= 1
            /\ log[i].ev = "overwrite" => log[i].n >= 1

\* C25 witness: in a set, the cleanup returned by the nested run of a clamping
\* watcher was overwritten without ever having been invoked.
C25_Witness ==
    /\ op.kind = "set"
    /\ Cardinality(SetCalls) = 2
    /\ \E i \in Steps : Reentrant(i) /\ log[i].ev = "overwrite" /\ log[i].n = 0

-----------------------------------------------------------------------------
(* Claims about the subscriptions of useEffect and useMemo *)

\* The cells the deps argument of effect e names: for deps null or absent, the
\* cells that existed when useEffect was called; for an array, its cells.
Tracked(e) ==
    IF effects[e].deps.t = "null" THEN 1..effects[e].known
    ELSE {effects[e].deps.items[j].i : j \in {k \in 1..Len(effects[e].deps.items) :
                                                effects[e].deps.items[k].k = "cell"}}

\* The deps of effect e name cells only.
CellDepsOnly(e) ==
    effects[e].deps.t = "null"
        \/ \A j \in 1..Len(effects[e].deps.items) : effects[e].deps.items[j].k = "cell"

\* How many watchers of cell c schedule effect e.
SubscriptionsOn(c, e) ==
    Cardinality({j \in 1..Len(cells[c].onSet) : cells[c].onSet[j].cb = Cb("effect", e)})
        + Cardinality({j \in 1..Len(cells[c].onChange) :
                           cells[c].onChange[j].cb = Cb("effect", e)})

\* C14: an effect stays subscribed to exactly the cells its deps named at the
\* useEffect call (deps null: the cells created before the call), and a set on
\* any other cell neither schedules the effect nor runs its callback.
C14_SubscriptionsFixedAtCall ==
    \A e \in 1..Len(effects) :
        CellDepsOnly(e) =>
            /\ \A c \in 1..Len(cells) :
                  SubscriptionsOn(c, e) = IF c \in Tracked(e) THEN 1 ELSE 0
            /\ turn[e] \subseteq Tracked(e)
            /\ (op.kind = "set" /\ op.target \notin Tracked(e)) =>
                  /\ EffectRuns(e) = {}
                  /\ \A i \in Steps :
                        log[i].ev = "schedule" => log[i].w # JobOf("effect", e)

\* C14 witness: a set has changed a cell that was created after
\* useEffect(cb, null).
C14_Witness ==
    /\ op.kind = "set" /\ log[1].hasChange
    /\ \E e \in 1..Len(effects) :
          /\ effects[e].deps.t = "null"
          /\ effects[e].known >= 1
          /\ op.target > effects[e].known

\* The recomputes of memo m in the last call: the steps that stored a new
\* memoizedValue.
Recomputes(m) == {i \in Steps : log[i].ev = "compute" /\ log[i].w = Path("memo", m, 0)}

\* The watcher at p was run exactly once after the recompute at step i and
\* before the next recompute of the same memo, with the value stored at step i.
NotifiedOnce(i, p) ==
    LET until == IF \E k \in Recomputes(log[i].w.owner) : k > i
                 THEN CHOOSE k \in Recomputes(log[i].w.owner) :
                          k > i /\ \A l \in Recomputes(log[i].w.owner) : l > i => k <= l
                 ELSE Len(log) + 1
        runs == {j \in RunsOf(p) : i < j /\ j < until}
    IN  /\ Cardinality(runs) = 1
        /\ \A j \in runs : log[j].value = log[i].value

\* C15: every recompute of a derived value runs every registered memo watcher
\* exactly once with the value just stored, equal to the previous one or not; and
\* a flush that starts with the recompute pending, after any number of changes
\* of the dependencies, recomputes exactly once.
C15_RecomputeNotifiesOnce ==
    /\ \A m \in 1..Len(memos) :
          \A i \in Recomputes(m) :
              \A j \in 1..Len(memos[m].sideEffect) : NotifiedOnce(i, Path("memo", m, j))
    /\ op.kind = "flush" =>
          \A k \in 1..Len(op.pending) :
              op.pending[k].list = "compute" =>
                  Cardinality(Recomputes(op.pending[k].owner)) = 1

\* C15 witness: a flush that started with the recompute of a successfully
\* constructed derived value pending has stored no new value, and the job is
\* still queued.
C15_Witness ==
    /\ op.kind = "flush" /\ op.threw
    /\ \E k \in 1..Len(op.pending) :
          /\ op.pending[k].list = "compute"
          /\ memos[op.pending[k].owner].returned
          /\ Recomputes(op.pending[k].owner) = {}
          /\ memos[op.pending[k].owner].sideEffect # <<>>
          /\ InQueue(Here, op.pending[k])

\* Memo m has cell c among its dependencies.
DependsOn(m, c) == \E j \in 1..Len(memos[m].deps) : memos[m].deps[j] = Dep("cell", c)

\* C16: right after set on a dependency returns, before any microtask runs, the
\* derived value equals what its factory returns for the new dependency values.
C16_MemoFreshAfterSet ==
    op.kind = "set" =>
        \A m \in 1..Len(memos) :
            (memos[m].returned /\ DependsOn(m, op.target) /\ ~factoryThrows(Here, m)) =>
                memos[m].memoizedValue.items = factoryResult(Here, m).items

\* C16 witness: set has changed a dependency and returned; the derived value
\* still holds the result for the old value, and its recompute is queued behind
\* an armed flush.
C16_Witness ==
    /\ op.kind = "set" /\ log[1].hasChange
    /\ ~isFlushing /\ microtasks > 0
    /\ \E m \in 1..Len(memos) :
          /\ memos[m].returned /\ DependsOn(m, op.target)
          /\ memos[m].factory = "tuple"
          /\ memos[m].memoizedValue.items # factoryResult(Here, m).items
          /\ InQueue(Here, JobOf("compute", m))

-----------------------------------------------------------------------------
(* Claims about usage errors *)

\* The last call was given a value that is not a function where it takes a
\* callback or a factory.
UsageError ==
    \/ op.kind \in {"watch", "memoWatch"} /\ ~Callable(op.arg)
    \/ op.kind \in {"watchEffect", "useEffect"} /\ ~Callable(op.arg.cb)
    \/ op.kind = "useMemo" /\ op.arg.factory = NotAFunction

\* C17: a call that is given a value that is not a function where a callback is
\* required throws nothing, invokes nothing, schedules nothing and registers
\* nothing: the cells and their watcher lists, the derived values, the effects
\* and the queue are what they were before the call.
C17_UsageErrorSkipped ==
    [][UsageError' =>
          /\ ~op'.threw
          /\ log' = <<>>
          /\ cells' = cells /\ memos' = memos /\ effects' = effects
          /\ queue' = queue /\ microtasks' = microtasks]_vars

\* C17 witness: useMemo was given a factory that is not a function, with a cell
\* as dependency: the call threw and the cell has a watcher for the recompute.
C17_Witness ==
    /\ op.kind = "useMemo" /\ op.arg.factory = NotAFunction
    /\ op.threw
    /\ \E c \in 1..Len(cells) : \E j \in 1..Len(cells[c].onChange) :
          cells[c].onChange[j].cb = Cb("compute", op.target)

-----------------------------------------------------------------------------
(* Claims about isEqual *)

\* The set of the keys of an object.
KeySet(a) == {Keys(a)[i] : i \in 1..Len(Keys(a))}

\* C18: two plain objects are equal if and only if they have the same set of
\* keys and the values under every key are equal; set reports hasChange as the
\* negation of that.
C18_ObjectsEqualIffSameKeysAndValues ==
    \A i \in SetCalls :
        (log[i].old.t = "obj" /\ log[i].value.t = "obj") =>
            (~log[i].hasChange <=>
                /\ KeySet(log[i].old) = KeySet(log[i].value)
                /\ \A k \in KeySet(log[i].old) :
                      isEqual(Get(log[i].old, k), Get(log[i].value, k)))

\* C18 witness: a set from {x: undefined} to {y: undefined} has reported
\* hasChange = false.
C18_Witness ==
    /\ op.kind = "set"
    /\ log[1].old = Obj(26, <<"x">>, <<Undefined>>)
    /\ log[1].value = Obj(27, <<"y">>, <<Undefined>>)
    /\ ~log[1].hasChange

\* C19: values of different runtime kinds (number, undefined, null, array,
\* plain object) are never equal, and two arrays are equal if and only if they
\* have the same length and equal elements at every index.
C19_KindsDifferAndArraysPairwise ==
    \A i \in SetCalls :
        /\ (log[i].old.t # log[i].value.t) => log[i].hasChange
        /\ (log[i].old.t = "arr" /\ log[i].value.t = "arr") =>
              (~log[i].hasChange <=>
                  /\ Len(log[i].old.items) = Len(log[i].value.items)
                  /\ \A j \in 1..Len(log[i].old.items) :
                        isEqual(log[i].old.items[j], log[i].value.items[j]))

\* C19 witness: a set from the array [1] to the object {0: 1} has reported
\* hasChange = false.
C19_Witness ==
    /\ op.kind = "set"
    /\ log[1].old = Arr(12, <<Num(1)>>)
    /\ log[1].value = Obj(22, <<"0">>, <<Num(1)>>)
    /\ ~log[1].hasChange

\* C23: useMemo(factory, cell) constructs a derived value as
\* useMemo(factory, [cell]) does: the call does not throw, the caller holds the
\* derived value, its recompute is subscribed to the change channel of the cell
\* and it has computed once, giving what the factory returns for the cell.
C23_SingleCellDeps ==
    (op.kind = "useMemo" /\ op.arg.factory = "tuple" /\ op.arg.deps.t = "cell") =>
        /\ ~op.threw
        /\ Len(memos) = op.target
        /\ memos[op.target].returned
        /\ \E j \in 1..Len(cells[op.arg.deps.i].onChange) :
              cells[op.arg.deps.i].onChange[j].cb = Cb("compute", op.target)
        /\ Cardinality(Recomputes(op.target)) = 1
        /\ memos[op.target].memoizedValue.items = <<cells[op.arg.deps.i].data>>

\* C23 witness: useMemo(factory, cell) has thrown, leaving no derived value and
\* no subscription on the cell.
C23_Witness ==
    /\ op.kind = "useMemo" /\ op.arg = [factory |-> "tuple", deps |-> CellObject(1)]
    /\ op.threw
    /\ memos = <<>>
    /\ cells[1].onChange = <<>>

-----------------------------------------------------------------------------
(* Claims about the scheduler *)

\* The executions of job that started after step i of the last call.
JobRunsAfter(i, job) == {j \in JobRuns(job) : j > i}

\* No flush is armed or running and nothing is queued.
Quiescent == microtasks = 0 /\ ~isFlushing /\ queue = <<>>

\* C24: no scheduled job is lost: every call schedule(job) is followed by an
\* execution of job that starts after the call, in the same flush or, the job
\* being queued with a flush armed, in a later one.
C24_NoJobLost ==
    \A i \in Steps :
        log[i].ev = "schedule" =>
            \/ JobRunsAfter(i, log[i].w) # {}
            \/ InQueue(Here, log[i].w) /\ microtasks > 0

\* C24 witness: a flush in which nothing threw has ended with an empty queue and
\* no flush armed, and a job scheduled during it was not executed afterwards.
C24_Witness ==
    /\ op.kind = "flush" /\ ~op.threw
    /\ Quiescent
    /\ \A m \in 1..Len(memos) : memos[m].factory = "tuple"
    /\ \E i \in Steps : log[i].ev = "schedule" /\ JobRunsAfter(i, log[i].w) = {}

\* C26: whenever no flush is executing the isFlushing flag is false, and a flush
\* executes every job that was pending when it started, also when one of them
\* failed.
C26_SchedulerNeverStuck ==
    /\ ~isFlushing
    /\ op.kind = "flush" =>
          \A k \in 1..Len(op.pending) : JobRuns(op.pending[k]) # {}

\* C26 witness: after a flush in which a factory threw, a set has scheduled a
\* job while isFlushing was still true, and no flush is armed.
C26_Witness ==
    /\ op.kind = "set"
    /\ isFlushing /\ microtasks = 0
    /\ \E i \in Steps : log[i].ev = "schedule" /\ InQueue(Here, log[i].w)

\* C27: at most one flush is armed at any time.
C27_AtMostOneFlushArmed == microtasks <= 1

\* C27 witness: two flushes are armed after a set, the scheduler being idle and
\* no factory ever throwing.
C27_Witness ==
    /\ op.kind = "set"
    /\ microtasks = 2 /\ ~isFlushing
    /\ \A m \in 1..Len(memos) : memos[m].factory = "tuple"

\* C28: at quiescence every derived value whose factory is a total pure function
\* of its dependencies equals what the factory returns for the values the
\* dependencies hold.
C28_ConsistentAtQuiescence ==
    Quiescent =>
        \A m \in 1..Len(memos) :
            (memos[m].returned /\ memos[m].factory = "tuple") =>
                memos[m].memoizedValue.items = factoryResult(Here, m).items

\* C28 witness: a quiescent state, reached by a call that threw nothing, in which
\* a derived value differs from what its factory returns.
C28_Witness ==
    /\ Quiescent /\ ~op.threw
    /\ \E m \in 1..Len(memos) :
          /\ memos[m].returned /\ memos[m].factory = "tuple"
          /\ memos[m].deps # <<>>
          /\ memos[m].memoizedValue.items # factoryResult(Here, m).items

\* Job is among the jobs that were pending when the flush started.
WasPending(job) == \E k \in 1..Len(op.pending) : op.pending[k] = job

\* C29: in a flush that starts with the recompute of a derived value and the
\* rerun of an effect both pending because of a change of the same cell, the
\* recompute is executed before the effect.
C29_RecomputeBeforeEffect ==
    op.kind = "flush" =>
        \A e \in 1..Len(effects), m \in 1..Len(memos) :
            (/\ WasPending(JobOf("effect", e)) /\ WasPending(JobOf("compute", m))
             /\ \E c \in op.turn[e] : DependsOn(m, c)) =>
                \A i \in JobRuns(JobOf("effect", e)) :
                    \E j \in JobRuns(JobOf("compute", m)) : j < i

\* C29 witness: a flush in which nothing threw executed the effect before the
\* recompute, both pending because of a change of a cell they both depend on.
C29_Witness ==
    /\ op.kind = "flush" /\ ~op.threw
    /\ \E e \in 1..Len(effects), m \in 1..Len(memos) :
          /\ effects[e].cb = Cb("cleanup", 0)
          /\ memos[m].factory = "tuple"
          /\ \E c \in op.turn[e] : DependsOn(m, c)
          /\ op.pending = <<JobOf("effect", e), JobOf("compute", m)>>
          /\ \E i \in JobRuns(JobOf("effect", e)) :
                \A j \in JobRuns(JobOf("compute", m)) : i < j

\* C30: in a flush that starts with the reruns of two effects pending, the
\* effect registered first is executed first, whatever the order of the sets
\* that triggered them.
C30_RegistrationOrderInFlush ==
    op.kind = "flush" =>
        \A e1, e2 \in 1..Len(effects) :
            (e1 < e2 /\ WasPending(JobOf("effect", e1)) /\ WasPending(JobOf("effect", e2))) =>
                \A i \in JobRuns(JobOf("effect", e1)), j \in JobRuns(JobOf("effect", e2)) :
                    i < j

\* C30 witness: the first effect tracks cell 1 and the second cell 2; cell 2 was
\* set before cell 1, and the flush has executed the second effect first.
C30_Witness ==
    /\ op.kind = "flush" /\ ~op.threw
    /\ Len(effects) = 2
    /\ effects[1].deps.items = <<Dep("cell", 1)>>
    /\ effects[2].deps.items = <<Dep("cell", 2)>>
    /\ op.pending = <<JobOf("effect", 2), JobOf("effect", 1)>>
    /\ \E i \in JobRuns(JobOf("effect", 1)), j \in JobRuns(JobOf("effect", 2)) : j < i

-----------------------------------------------------------------------------
(* Claims about useButton *)

ButtonCalls == {"disabled", "loading", "show", "hide"}

\* C21: after loading(true), whatever the state of the button was, the state has
\* loading = true and disabled = true and every bound element has its native
\* disabled property true.
C21_LoadingDisables ==
    (op.kind = "loading" /\ op.arg = Bool(TRUE)) =>
        /\ Get(cells[op.target].data, "loading") = Bool(TRUE)
        /\ Get(cells[op.target].data, "disabled") = Bool(TRUE)
        /\ \A j \in 1..Len(cells[op.target].dom) : cells[op.target].dom[j].disabled

\* C21 witness: loading(true) on a button that was neither disabled nor loading.
C21_Witness ==
    /\ op.kind = "loading" /\ op.arg = Bool(TRUE)
    /\ Get(log[1].old, "loading") = Bool(FALSE)
    /\ Get(log[1].old, "disabled") = Bool(FALSE)
    /\ Len(cells[op.target].dom) = 2

-----------------------------------------------------------------------------
(* Further claims about isEqual *)

\* C37: isEqual is symmetric, so whether a set from u to v counts as a change is
\* what a set from v to u would count as.
C37_EqualitySymmetric ==
    \A i \in SetCalls : log[i].hasChange = HasChange(log[i].value, log[i].old)

\* C37 witness: a set from {x: undefined} to {0: 1} has reported no change,
\* although {0: 1} is not equal to {x: undefined} in the other direction.
C37_Witness ==
    /\ op.kind = "set"
    /\ log[1].old = Obj(26, <<"x">>, <<Undefined>>)
    /\ log[1].value = Obj(22, <<"0">>, <<Num(1)>>)
    /\ ~log[1].hasChange
    /\ ~isEqual(log[1].value, log[1].old)

-----------------------------------------------------------------------------
(* Derived values of derived values: cells, sets, useMemo over the cells and
   the derived values that exist, and the flush *)

ChainDepLists == {ListOf(S) : S \in (SUBSET (CellDeps \cup MemoDeps)) \ {{}}}

NextChain ==
    \/ \E v \in {Num(0), Num(1)} : Len(cells) < MaxCells /\ UseState(v)
    \/ \E c \in 1..Len(cells), arg \in {Num(0), Num(1)} : Set(c, arg)
    \/ \E deps \in ChainDepLists :
          Len(memos) < MaxChainedMemos /\ UseMemo("tuple", Arr(0, deps))
    \/ Flush

SpecChain == Init /\ [][NextChain]_vars

-----------------------------------------------------------------------------
(* Further claims about the scheduler *)

\* The jobs that exist: the rerun of each effect, the recompute of each memo.
Jobs ==
    {JobOf("effect", e) : e \in 1..Len(effects)} \cup {JobOf("compute", m) : m \in 1..Len(memos)}

\* C31: a flush ends, having executed each job at most once, also when the jobs
\* it executes schedule jobs, themselves included, through the sets they make.
C31_FlushRunsJobAtMostOnce ==
    op.kind = "flush" => \A job \in Jobs : Cardinality(JobRuns(job)) <= 1

\* C31 witness: a flush has executed an effect whose callback changed the cell
\* the effect depends on, which scheduled the effect again during the flush; the
\* effect was executed once.
C31_Witness ==
    /\ op.kind = "flush" /\ ~op.threw
    /\ \E e \in 1..Len(effects) :
          /\ effects[e].cb.k = "flip"
          /\ Cardinality(JobRuns(JobOf("effect", e))) = 1
          /\ \E i, j \in Steps :
                /\ i < j
                /\ log[i].ev = "job" /\ log[i].w = JobOf("effect", e)
                /\ log[j].ev = "schedule" /\ log[j].w = JobOf("effect", e)

-----------------------------------------------------------------------------
(* Further claims about set *)

\* The notifications the change-watcher j of cell c got in the last call, in order.
Notifications(c, j) ==
    LET Mine(e) == e.ev = "run" /\ e.w = Path("onChange", c, j)
    IN  SelectSeq(log, Mine)

\* C32: a change-watcher is not notified twice in a row with the same
\* (deep-equal) value, also when a watcher registered before it calls set on
\* the cell during the notification.
C32_NoRepeatedNotification ==
    \A c \in 1..Len(cells) :
        \A j \in 1..Len(cells[c].onChange) :
            \A k \in 1..(Len(Notifications(c, j)) - 1) :
                ~isEqual(Notifications(c, j)[k].value, Notifications(c, j)[k + 1].value)

\* C32 witness: set(1) on a cell that holds 0 and whose first watcher sets it
\* back to 0: the change-watcher registered after it was notified by the nested
\* set and again by the outer one, with 0 both times.
C32_Witness ==
    /\ op.kind = "set" /\ op.arg = Num(1)
    /\ Cardinality(SetCalls) = 2
    /\ \E c \in 1..Len(cells) :
          \E j \in 1..Len(cells[c].onChange) :
              /\ cells[c].onChange[j].cb.k = "plain"
              /\ Len(Notifications(c, j)) = 2
              /\ Notifications(c, j)[1].value = Num(0)
              /\ Notifications(c, j)[2].value = Num(0)
              /\ Notifications(c, j)[1].call # Notifications(c, j)[2].call

\* C33: when the updater function passed to set throws, the cell is left as it
\* was: its value and its bound elements are what they were, and no watcher and
\* no cleanup was invoked.
C33_ThrowingUpdaterLeavesCell ==
    [][(op'.kind = "set" /\ UpdaterThrows(op'.arg)) => (cells' = cells /\ log' = <<>>)]_vars

\* C33 witness: set(updater) with an updater that throws has thrown, on a cell
\* that is bound to elements, has a watcher that returned a cleanup, and holds a
\* value other than the one it was constructed with.
C33_Witness ==
    /\ op.kind = "set" /\ UpdaterThrows(op.arg) /\ op.threw
    /\ cells[op.target].dom # <<>>
    /\ cells[op.target].data = Str("a")
    /\ \E j \in 1..Len(cells[op.target].onSet) :
          cells[op.target].onSet[j].cleanup # NoCleanup

-----------------------------------------------------------------------------
(* Further claims about the DOM binding *)

\* C38: the synchronization of the bound elements is idempotent: a set writes
\* nothing to an element that displays the new value already, also when the
\* value is a number and the element a text input or a generic element.
C38_SyncIdempotent ==
    [][op'.kind = "set" =>
          \A i \in 1..Len(log') :
              (/\ log'[i].ev = "sync"
               /\ syncDomModel(cells[op'.target].dom[log'[i].w.idx], log'[i].value)
                     = cells[op'.target].dom[log'[i].w.idx])
                  => ~log'[i].hasChange]_vars

\* C38 witness: set(1) on a cell that holds 1 has written to a bound text input
\* or generic element, which showed "1" before and shows "1" now.
C38_Witness ==
    /\ op.kind = "set" /\ op.arg = Num(1)
    /\ log[1].ev = "set" /\ log[1].old = Num(1) /\ ~log[1].hasChange
    /\ \E i \in Steps :
          /\ log[i].ev = "sync" /\ log[i].hasChange
          /\ cells[op.target].dom[log[i].w.idx].kind \in {"text", "span"}
          /\ Displays(cells[op.target].dom[log[i].w.idx], Num(1))

\* Cell c is bound to a radio group.
RadioGroup(c) ==
    /\ cells[c].dom # <<>>
    /\ \A j \in 1..Len(cells[c].dom) : cells[c].dom[j].kind = "radio"

\* C39: of a cell bound to a radio group, the value is the selected radio: after
\* a change event the cell holds the value of the radio that is checked, and
\* after set(v) every radio has the value attribute it had and is checked if
\* and only if that value is v.
C39_RadioGroupMapping ==
    [][/\ (op'.kind \in EventTypes /\ RadioGroup(op'.target)) =>
              \E j \in 1..Len(cells'[op'.target].dom) :
                  /\ cells'[op'.target].dom[j].checked
                  /\ cells'[op'.target].data = Str(cells[op'.target].dom[j].value)
       /\ (op'.kind = "set" /\ ~op'.threw /\ RadioGroup(op'.target)) =>
              \A j \in 1..Len(cells'[op'.target].dom) :
                  /\ cells'[op'.target].dom[j].value = cells[op'.target].dom[j].value
                  /\ cells'[op'.target].dom[j].checked
                        <=> (cells[op'.target].dom[j].value = ToStr(log'[1].value))]_vars

\* C39 witness: after set("a") on a cell bound to two radios, constructed with
\* the values "a" and "b", no radio is checked and both have the value "a".
C39_Witness ==
    /\ op.kind = "set" /\ op.arg = Str("a")
    /\ RadioGroup(op.target)
    /\ \A j \in 1..Len(cells[op.target].dom) :
          cells[op.target].dom[j].value = "a" /\ ~cells[op.target].dom[j].checked

-----------------------------------------------------------------------------
(* Further claims about useButton *)

\* Element el presents the state: its native disabled, its four classes and
\* its content are what the state says.
Presents(el, state) ==
    /\ el.disabled = (Truthy(Get(state, "disabled")) \/ Truthy(Get(state, "loading")))
    /\ "loading" \in el.classes <=> Truthy(Get(state, "loading"))
    /\ "disabled" \in el.classes <=> Truthy(Get(state, "disabled"))
    /\ "show" \in el.classes <=> Truthy(Get(state, "display"))
    /\ "hidden" \in el.classes <=> ~Truthy(Get(state, "display"))
    /\ el.innerHTML = IF Truthy(Get(state, "loading"))
                      THEN el.item.loading \o el.item.icon
                      ELSE el.item.default

\* C34: after every call of disabled, loading, show and hide, each bound element
\* has native disabled = disabled or loading, the loading, disabled, shown and
\* hidden classes as the state says, and as content the loading template
\* followed by the icon when loading and the content captured at bind time
\* otherwise.
C34_RenderFollowsState ==
    op.kind \in ButtonCalls \cup {"loadingCycle"} =>
        \A j \in 1..Len(cells[op.target].dom) :
            /\ Presents(cells[op.target].dom[j], cells[op.target].data)
            /\ cells[op.target].dom[j].item.default \in {"Save", "OK"}

\* C34 witness: hide(true) on a button that is loading and was constructed with
\* a loading template: the two elements are hidden, disabled, and show the
\* template and the icon.
C34_Witness ==
    /\ op.kind = "hide" /\ op.arg = Bool(TRUE)
    /\ cells[op.target].data = ButtonState(Bool(TRUE), Bool(TRUE), Bool(FALSE))
    /\ Len(cells[op.target].dom) = 2
    /\ cells[op.target].dom[2].innerHTML = "Wait*"
    /\ cells[op.target].dom[2].classes = {"loading", "disabled", "hidden"}
    /\ cells[op.target].dom[2].display = "none"

\* C35: loading(true) followed by loading(false) is a round trip on the state
\* of a button that is not loading: the state after the pair equals the state
\* before it, and a button that was disabled is disabled after it, in its state
\* and natively.
C35_LoadingRoundTrip ==
    (op.kind = "loadingCycle" /\ ~Truthy(Get(log[1].old, "loading"))) =>
        /\ isEqual(cells[op.target].data, log[1].old)
        /\ Truthy(Get(log[1].old, "disabled")) =>
              /\ Get(cells[op.target].data, "disabled") = Bool(TRUE)
              /\ \A j \in 1..Len(cells[op.target].dom) : cells[op.target].dom[j].disabled

\* C35 witness: after loading(true); loading(false) on a button that was
\* disabled and not loading, the button is enabled.
C35_Witness ==
    /\ op.kind = "loadingCycle"
    /\ log[1].old = ButtonState(Bool(TRUE), Bool(FALSE), Bool(TRUE))
    /\ Get(cells[op.target].data, "disabled") = Bool(FALSE)
    /\ ~cells[op.target].dom[1].disabled

\* C36: from the return of useButton on, before the first call of a method and
\* whatever state the options give, each bound element has native disabled =
\* disabled or loading and shows the loading template if and only if the
\* button is loading.
C36_RenderedFromConstruction ==
    \A c \in 1..Len(cells) :
        \A j \in 1..Len(cells[c].dom) :
            /\ cells[c].dom[j].disabled
                  = (Truthy(Get(cells[c].data, "disabled")) \/ Truthy(Get(cells[c].data, "loading")))
            /\ cells[c].dom[j].innerHTML
                  = IF Truthy(Get(cells[c].data, "loading"))
                    THEN cells[c].dom[j].item.loading \o cells[c].dom[j].item.icon
                    ELSE cells[c].dom[j].item.default

\* C36 witness: useButton with options.state.loading = true has returned, and
\* the element is enabled and shows its own content.
C36_Witness ==
    /\ op.kind = "useButton"
    /\ Get(cells[op.target].data, "loading") = Bool(TRUE)
    /\ ~cells[op.target].dom[1].disabled
    /\ cells[op.target].dom[1].innerHTML = "Save"
    /\ cells[op.target].dom[1].item.loading = "Wait"

-----------------------------------------------------------------------------
(* Further claims about useMemo *)

\* Derived value m has a derived value among its dependencies.
Downstream(m) == \E j \in 1..Len(memos[m].deps) : memos[m].deps[j].k = "memo"

\* C40: a derived value can be a dependency of a derived value: useMemo(g, [m])
\* with m a derived value constructs, and once the flushes that a change of a
\* cell triggers have run, the downstream value is what g returns for the
\* values its dependencies hold.
C40_MemoOfMemo ==
    /\ (op.kind = "useMemo" /\ Downstream(op.target)) =>
          ~op.threw /\ memos[op.target].returned
    /\ (queue = <<>> /\ microtasks = 0) =>
          \A m \in 1..Len(memos) :
              (Downstream(m) /\ memos[m].returned) =>
                  memos[m].memoizedValue.items = factoryResult(Here, m).items

\* C40 witness: with m = useMemo(f, [a]) constructed, useMemo(g, [m]) threw and
\* returned nothing.
C40_Witness ==
    /\ op.kind = "useMemo" /\ op.threw
    /\ op.arg.deps = Arr(0, <<Dep("memo", 1)>>)
    /\ Len(memos) = 2
    /\ memos[1].returned /\ memos[1].deps = <<Dep("cell", 1)>>
    /\ ~memos[2].returned

====
